---- MODULE Spec2Model ----
(***************************************************************************)
(* Model of blunder_prediction/make_month_csv.py: the reader (Dispatcher), *)
(* the pool of gamesConverter workers, the writer (Collector) and the      *)
(* cleanup of the main process (Supervisor), tied together by two bounded  *)
(* manager queues.                                                         *)
(***************************************************************************)
EXTENDS Integers, Sequences, FiniteSets

\* Bounds of the model: games in the input file, converter processes, capacity
\* of the two queues, and games plus converters of one run.
MaxR == 2
MaxW == 2
MaxC == 2
MaxLoad == 4
\* Games plus converters of one run, where behaviours are checked to their end.
MaxLiveLoad == 3

\* What maia_chess_backend.gameToCSVlines does with one game: raise
\* NoStockfishEvals, raise something else, or return a list of 0, 1 or 2 lines.
Outcomes == {"skip", "fail", "lines0", "lines1", "lines2"}

Sources == UNION {[1..n -> Outcomes] : n \in 0..MaxR}

VARIABLES
    source,             \* the games of the input file: source[id] is what the transform does with game id
    poolSize,           \* args.pool
    queueSize,          \* args.queueSize
    unproccessedQueue,  \* manager.Queue(queueSize): reader -> converters
    resultsQueue,       \* manager.Queue(queueSize): converters -> writer
    rpc,                \* readerWorker: where it is
    nread,              \* readerWorker: games put so far (the enumerate index)
    nkill,              \* readerWorker: 'kill's put so far (the range index)
    srcEnd,             \* readerWorker: how the iteration over the file ended
    pc,                 \* gamesConverter w: where it is
    dat,                \* gamesConverter w: the item it is about to put
    wpc,                \* writerWorker: where it is
    f,                  \* writerWorker: what was written to the bz2 file, in order
    num_kill_remaining, \* writerWorker
    written,            \* writerWorker: i
    spc,                \* cleanup: where it is
    gameReaders,        \* cleanup: the list of pending converter handles
    pollIdx,            \* cleanup: i of the for loop (1-based)
    inLog,              \* history: every put on unproccessedQueue, with its sender
    killsPut,           \* history: killsPut[w] = the 'kill's converter w put on resultsQueue
    linesPut,           \* history: linesPut[id] = the puts of the lines of game id on resultsQueue
    ngot                \* history: ngot[id] = how many times a converter got game id

vars == <<source, poolSize, queueSize, unproccessedQueue, resultsQueue, rpc, nread,
          nkill, srcEnd, pc, dat, wpc, f, num_kill_remaining, written, spc,
          gameReaders, pollIdx, inLog, killsPut, linesPut, ngot>>

\* len(readers): processPGN starts poolSize - 1 converters.
W == poolSize - 1
R == Len(source)
Workers == 1..W

----
\* Items on the queues.

\* The str 'kill'.
Kill == [type |-> "str", repr |-> "kill", id |-> 0, n |-> 0]

\* The value of the game string gs of game id: the text of a game, or, for a
\* game marked "kill" in source, the four characters 'kill'.
GameText(id) == IF source[id] = "kill" THEN "kill" ELSE "game"

\* The game string gs of game id, as LightGamesFile yields it.
Game(id) == [type |-> "str", repr |-> GameText(id), id |-> id, n |-> 0]

\* ('\n'.join(s) + '\n').encode('utf8') for the n lines s of game id.
Payload(id, n) == [type |-> "bytes", repr |-> "lines", id |-> id, n |-> n]

\* (','.join(full_csv_header) + '\n').encode('utf8')
Header == [type |-> "bytes", repr |-> "header", id |-> 0, n |-> 1]

\* dat == 'kill'
IsKill(d) == d.type = "str" /\ d.repr = "kill"

\* A file that takes a str as it takes bytes.
WriteNeverRaises(d) == FALSE

\* f.write(dat) of a bz2 file opened 'wb' raises TypeError for a str.
WriteRaisesTypeError(d) == d.type # "bytes"

\* len(s) of the list gameToCSVlines returns.
NumLines(o) == CASE o = "lines1" -> 1 [] o = "lines2" -> 2 [] OTHER -> 0

\* maia_chess_backend.gameToCSVlines(dat, ...)
gameToCSVlines(d) == source[d.id]

\* A queue that lets one item more in than its maxsize.
CanPutOffByOne(q) == Len(q) <= queueSize

\* Queue.put(x, True, timeout) returns only when there is room.
CanPut(q) == Len(q) < queueSize

\* A queue that hands out the newest item first.
PutFirst(q, x) == <<x>> \o q

\* Queue.put appends at the tail.
Put(q, x) == Append(q, x)

\* Queue.get() with no timeout returns only when there is an item.
CanGet(q) == Len(q) > 0

\* A get that leaves the item it returns on the queue.
GetPeek(q) == q

\* Queue.get() removes the head.
Get(q) == Tail(q)

\* An entry of the history of a queue.
Entry(who, x) == [by |-> who, item |-> x]

----
\* A workers pool with two processes fewer than requested.
WorkersPoolTooSmall == poolSize - 2

\* multiprocessing.Pool(args.pool): the processes of workers_pool. A task
\* given to a pool whose processes are all taken stays queued until one of
\* them is free.
WorkersPoolProcesses == poolSize

\* The state when processPGN has returned: both queues empty, every process
\* started, cleanup about to run.
Start ==
    /\ unproccessedQueue = <<>>
    /\ resultsQueue = <<>>
    /\ rpc = "read"
    /\ nread = 0
    /\ nkill = 0
    /\ srcEnd = "none"
    /\ pc = [w \in Workers |-> IF w <= WorkersPoolProcesses THEN "get" ELSE "queued"]
    /\ dat = [w \in Workers |-> Kill]
    /\ wpc = "open"
    /\ f = <<>>
    /\ num_kill_remaining = W
    /\ written = -1
    /\ spc = "poll"
    /\ gameReaders = [j \in 1..W |-> j]
    /\ pollIdx = 1
    /\ inLog = <<>>
    /\ killsPut = [w \in Workers |-> 0]
    /\ linesPut = [id \in 1..R |-> 0]
    /\ ngot = [id \in 1..R |-> 0]

Init ==
    /\ source \in Sources
    /\ poolSize \in 1..(MaxW + 1)
    /\ queueSize \in 1..MaxC
    /\ R + W <= MaxLoad
    /\ Start

----
\* readerWorker

\* A reader told to send one 'kill' per pool slot instead of one per converter.
ReaderNumReadersPool == poolSize

\* num_readers as processPGN passes it to readerWorker: len(readers).
ReaderNumReaders == W

\* A reader whose except clause names StopIteration only.
ReaderCatchesStopOnly(e) == e \in {"StopIteration"}

\* except (EOFError, StopIteration): pass
ReaderCatches(e) == e \in {"EOFError", "StopIteration"}

\* unproccessedQueue.put(gs, True, 1000) of the next game of the file.
ReaderPutGame ==
    /\ rpc = "read"
    /\ nread < R
    /\ CanPut(unproccessedQueue)
    /\ unproccessedQueue' = Put(unproccessedQueue, Game(nread + 1))
    /\ inLog' = Append(inLog, Entry("reader", Game(nread + 1)))
    /\ nread' = nread + 1
    /\ UNCHANGED <<source, poolSize, queueSize, resultsQueue, rpc, nkill, srcEnd, pc, dat,
                   wpc, f, num_kill_remaining, written, spc, gameReaders, pollIdx,
                   killsPut, linesPut, ngot>>

\* The iteration over gamesFile ends: the iterator is exhausted, or the read of
\* a truncated tail raises EOFError, which the except clause absorbs.
ReaderEndOfFile ==
    /\ rpc = "read"
    /\ nread = R
    /\ \E e \in {"StopIteration", "EOFError"} :
        /\ srcEnd' = e
        /\ rpc' = IF ReaderCatches(e) THEN "kills" ELSE "raised"
    /\ UNCHANGED <<source, poolSize, queueSize, unproccessedQueue, resultsQueue, nread,
                   nkill, pc, dat, wpc, f, num_kill_remaining, written, spc,
                   gameReaders, pollIdx, inLog, killsPut, linesPut, ngot>>

\* unproccessedQueue.put('kill', True, 100), once per pass of range(num_readers).
ReaderPutKill ==
    /\ rpc = "kills"
    /\ nkill < ReaderNumReaders
    /\ CanPut(unproccessedQueue)
    /\ unproccessedQueue' = Put(unproccessedQueue, Kill)
    /\ inLog' = Append(inLog, Entry("reader", Kill))
    /\ nkill' = nkill + 1
    /\ UNCHANGED <<source, poolSize, queueSize, resultsQueue, rpc, nread, srcEnd, pc, dat,
                   wpc, f, num_kill_remaining, written, spc, gameReaders, pollIdx,
                   killsPut, linesPut, ngot>>

\* range(num_readers) is exhausted: readerWorker returns.
ReaderReturn ==
    /\ rpc = "kills"
    /\ nkill >= ReaderNumReaders
    /\ rpc' = "done"
    /\ UNCHANGED <<source, poolSize, queueSize, unproccessedQueue, resultsQueue, nread,
                   nkill, srcEnd, pc, dat, wpc, f, num_kill_remaining, written, spc,
                   gameReaders, pollIdx, inLog, killsPut, linesPut, ngot>>

\* A reader that catches queue.Full as it catches the end of the file.
ReaderPutTimeoutCaught ==
    /\ (rpc = "read" /\ nread < R) \/ (rpc = "kills" /\ nkill < ReaderNumReaders)
    /\ ~CanPut(unproccessedQueue)
    /\ rpc' = IF rpc = "read" THEN "kills" ELSE "done"
    /\ UNCHANGED <<source, poolSize, queueSize, unproccessedQueue, resultsQueue, nread,
                   nkill, srcEnd, pc, dat, wpc, f, num_kill_remaining, written, spc,
                   gameReaders, pollIdx, inLog, killsPut, linesPut, ngot>>

\* A put whose queue stayed full for the whole timeout raises queue.Full, which
\* nothing in readerWorker catches.
ReaderPutTimeout ==
    /\ (rpc = "read" /\ nread < R) \/ (rpc = "kills" /\ nkill < ReaderNumReaders)
    /\ ~CanPut(unproccessedQueue)
    /\ rpc' = "full"
    /\ UNCHANGED <<source, poolSize, queueSize, unproccessedQueue, resultsQueue, nread,
                   nkill, srcEnd, pc, dat, wpc, f, num_kill_remaining, written, spc,
                   gameReaders, pollIdx, inLog, killsPut, linesPut, ngot>>

----
\* gamesConverter

\* A converter that forwards only results of more than one line.
ConverterNextDropsSingle(o) ==
    CASE o = "skip" -> "get"
      [] o = "fail" -> "raised"
      [] NumLines(o) > 1 -> "put"
      [] OTHER -> "get"

\* A converter whose else clause puts whatever the transform left, also after
\* NoStockfishEvals and for an empty list.
ConverterNextPutsAll(o) ==
    CASE o = "fail" -> "raised"
      [] OTHER -> "put"

\* A converter whose NoStockfishEvals clause leaves the loop.
ConverterNextBreaksOnSkip(o) ==
    CASE o = "skip" -> "done"
      [] o = "fail" -> "raised"
      [] NumLines(o) > 0 -> "put"
      [] OTHER -> "get"

\* What the converter does after gameToCSVlines: the NoStockfishEvals clause
\* passes, the bare except re-raises, the else clause puts when len(s) > 0.
ConverterNext(o) ==
    CASE o = "skip" -> "get"
      [] o = "fail" -> "raised"
      [] NumLines(o) > 0 -> "put"
      [] OTHER -> "get"

\* A converter whose get raises queue.Empty on the empty queue, so that the
\* except clause breaks out of the loop.
ConverterGetOrBreak(w) ==
    /\ pc[w] = "get"
    /\ IF CanGet(unproccessedQueue)
       THEN LET d == Head(unproccessedQueue) IN
            /\ unproccessedQueue' = Get(unproccessedQueue)
            /\ IF IsKill(d)
               THEN /\ pc' = [pc EXCEPT ![w] = "putkill"]
                    /\ dat' = [dat EXCEPT ![w] = Kill]
                    /\ ngot' = ngot
               ELSE LET o == gameToCSVlines(d) IN
                    /\ pc' = [pc EXCEPT ![w] = ConverterNext(o)]
                    /\ dat' = [dat EXCEPT ![w] = IF ConverterNext(o) = "put"
                                                  THEN Payload(d.id, NumLines(o)) ELSE @]
                    /\ ngot' = [ngot EXCEPT ![d.id] = @ + 1]
       ELSE /\ pc' = [pc EXCEPT ![w] = "done"]
            /\ UNCHANGED <<unproccessedQueue, dat, ngot>>
    /\ UNCHANGED <<source, poolSize, queueSize, resultsQueue, rpc, nread, nkill, srcEnd,
                   wpc, f, num_kill_remaining, written, spc, gameReaders, pollIdx,
                   inLog, killsPut, linesPut>>

\* dat = inputQueue.get(), then the branch on dat == 'kill' up to the next put.
ConverterGet(w) ==
    /\ pc[w] = "get"
    /\ CanGet(unproccessedQueue)
    /\ LET d == Head(unproccessedQueue) IN
        /\ unproccessedQueue' = Get(unproccessedQueue)
        /\ IF IsKill(d)
           THEN /\ pc' = [pc EXCEPT ![w] = "putkill"]
                /\ dat' = [dat EXCEPT ![w] = Kill]
                /\ ngot' = ngot
           ELSE LET o == gameToCSVlines(d) IN
                /\ pc' = [pc EXCEPT ![w] = ConverterNext(o)]
                /\ dat' = [dat EXCEPT ![w] = IF ConverterNext(o) = "put"
                                              THEN Payload(d.id, NumLines(o)) ELSE @]
                /\ ngot' = [ngot EXCEPT ![d.id] = @ + 1]
    /\ UNCHANGED <<source, poolSize, queueSize, resultsQueue, rpc, nread, nkill, srcEnd,
                   wpc, f, num_kill_remaining, written, spc, gameReaders, pollIdx,
                   inLog, killsPut, linesPut>>

\* outputQueue.put(lines.encode('utf8'), True, 1000), then back to the get.
ConverterPutLines(w) ==
    /\ pc[w] = "put"
    /\ CanPut(resultsQueue)
    /\ resultsQueue' = Put(resultsQueue, dat[w])
    /\ linesPut' = [linesPut EXCEPT ![dat[w].id] = @ + 1]
    /\ dat' = [dat EXCEPT ![w] = Kill]
    /\ pc' = [pc EXCEPT ![w] = "get"]
    /\ UNCHANGED <<source, poolSize, queueSize, unproccessedQueue, rpc, nread, nkill,
                   srcEnd, wpc, f, num_kill_remaining, written, spc, gameReaders,
                   pollIdx, inLog, killsPut, ngot>>

\* A converter that forwards the 'kill' and goes on getting (no break).
ConverterPutKillNoBreak(w) ==
    /\ pc[w] = "putkill"
    /\ CanPut(resultsQueue)
    /\ resultsQueue' = Put(resultsQueue, Kill)
    /\ killsPut' = [killsPut EXCEPT ![w] = 1]
    /\ pc' = [pc EXCEPT ![w] = "get"]
    /\ UNCHANGED <<source, poolSize, queueSize, unproccessedQueue, rpc, nread, nkill,
                   srcEnd, dat, wpc, f, num_kill_remaining, written, spc, gameReaders,
                   pollIdx, inLog, linesPut, ngot>>

\* outputQueue.put('kill', True, 1000), then break and return.
ConverterPutKill(w) ==
    /\ pc[w] = "putkill"
    /\ CanPut(resultsQueue)
    /\ resultsQueue' = Put(resultsQueue, Kill)
    /\ killsPut' = [killsPut EXCEPT ![w] = @ + 1]
    /\ pc' = [pc EXCEPT ![w] = "done"]
    /\ UNCHANGED <<source, poolSize, queueSize, unproccessedQueue, rpc, nread, nkill,
                   srcEnd, dat, wpc, f, num_kill_remaining, written, spc, gameReaders,
                   pollIdx, inLog, linesPut, ngot>>

\* A put on the full results queue raises queue.Full after its timeout.
ConverterPutTimeout(w) ==
    /\ pc[w] \in {"put", "putkill"}
    /\ ~CanPut(resultsQueue)
    /\ pc' = [pc EXCEPT ![w] = "full"]
    /\ UNCHANGED <<source, poolSize, queueSize, unproccessedQueue, resultsQueue, rpc,
                   nread, nkill, srcEnd, dat, wpc, f, num_kill_remaining, written, spc,
                   gameReaders, pollIdx, inLog, killsPut, linesPut, ngot>>

----
\* writerWorker

\* A writer that stops one 'kill' early.
WriterBreakEarly(n) == n <= 1

\* if num_kill_remaining <= 0: break
WriterBreak(n) == n <= 0

\* A writer that opens the file and writes no header.
WriterOpenNoHeader ==
    /\ wpc = "open"
    /\ f' = f
    /\ wpc' = "loop"
    /\ UNCHANGED <<source, poolSize, queueSize, unproccessedQueue, resultsQueue, rpc,
                   nread, nkill, srcEnd, pc, dat, num_kill_remaining, written, spc,
                   gameReaders, pollIdx, inLog, killsPut, linesPut, ngot>>

\* A writer that tests its count of 'kill's before its first get.
WriterOpenTestsCount ==
    /\ wpc = "open"
    /\ f' = Append(f, Header)
    /\ wpc' = IF WriterBreak(num_kill_remaining) THEN "closed" ELSE "loop"
    /\ UNCHANGED <<source, poolSize, queueSize, unproccessedQueue, resultsQueue, rpc,
                   nread, nkill, srcEnd, pc, dat, num_kill_remaining, written, spc,
                   gameReaders, pollIdx, inLog, killsPut, linesPut, ngot>>

\* bz2.open(outputFile, 'wb') and the write of the header line.
WriterOpen ==
    /\ wpc = "open"
    /\ f' = Append(f, Header)
    /\ wpc' = "loop"
    /\ UNCHANGED <<source, poolSize, queueSize, unproccessedQueue, resultsQueue, rpc,
                   nread, nkill, srcEnd, pc, dat, num_kill_remaining, written, spc,
                   gameReaders, pollIdx, inLog, killsPut, linesPut, ngot>>

\* One pass of the while loop: dat = inputQueue.get(), f.write(dat), and the
\* TypeError clause that counts the 'kill's.
WriterGet ==
    /\ wpc = "loop"
    /\ CanGet(resultsQueue)
    /\ LET d == Head(resultsQueue) IN
        /\ resultsQueue' = Get(resultsQueue)
        /\ IF ~WriteRaisesTypeError(d)
           THEN /\ f' = Append(f, d)
                /\ written' = written + 1
                /\ UNCHANGED <<wpc, num_kill_remaining>>
           ELSE IF IsKill(d)
           THEN /\ num_kill_remaining' = num_kill_remaining - 1
                /\ wpc' = IF WriterBreak(num_kill_remaining - 1) THEN "closed" ELSE "loop"
                /\ UNCHANGED <<f, written>>
           ELSE /\ wpc' = "raised"
                /\ UNCHANGED <<f, written, num_kill_remaining>>
    /\ UNCHANGED <<source, poolSize, queueSize, unproccessedQueue, rpc, nread, nkill,
                   srcEnd, pc, dat, spc, gameReaders, pollIdx, inLog, killsPut, linesPut, ngot>>

----
\* cleanup, and main's with blocks around it

\* del gameReaders[i]
Del(s, i) == [j \in 1..(Len(s) - 1) |-> IF j < i THEN s[j] ELSE s[j + 1]]

\* Pools that are left without terminating their processes.
TerminatedNever(p) == p

\* Pool.__exit__ terminates the processes of both pools that still run.
Terminated(p) == IF p \in {"done", "closed", "raised", "full"} THEN p ELSE "terminated"

\* An exception leaves cleanup and main's with blocks: both pools are terminated.
Raise ==
    /\ spc' = "raised"
    /\ rpc' = Terminated(rpc)
    /\ wpc' = Terminated(wpc)
    /\ pc' = [w \in Workers |-> Terminated(pc[w])]

\* A cleanup whose poll takes a converter that raised for one that returned.
CleanupPollSwallowsFailure ==
    /\ spc = "poll"
    /\ Len(gameReaders) > 0
    /\ LET h == gameReaders[pollIdx] IN
        CASE pc[h] \in {"done", "raised", "full"} ->
                /\ gameReaders' = Del(gameReaders, pollIdx)
                /\ pollIdx' = 1
                /\ UNCHANGED <<spc, rpc, wpc, pc>>
          [] OTHER ->
                /\ pollIdx' = IF pollIdx < Len(gameReaders) THEN pollIdx + 1 ELSE 1
                /\ UNCHANGED <<gameReaders, spc, rpc, wpc, pc>>
    /\ UNCHANGED <<source, poolSize, queueSize, unproccessedQueue, resultsQueue, nread,
                   nkill, srcEnd, dat, f, num_kill_remaining, written, inLog, killsPut,
                   linesPut, ngot>>

\* gameReaders[i].get(1): the result of a converter that returned, the
\* exception of one that raised, multiprocessing.TimeoutError otherwise.
CleanupPoll ==
    /\ spc = "poll"
    /\ Len(gameReaders) > 0
    /\ LET h == gameReaders[pollIdx] IN
        CASE pc[h] = "done" ->
                /\ gameReaders' = Del(gameReaders, pollIdx)
                /\ pollIdx' = 1
                /\ UNCHANGED <<spc, rpc, wpc, pc>>
          [] pc[h] \in {"raised", "full"} ->
                /\ Raise
                /\ UNCHANGED <<gameReaders, pollIdx>>
          [] OTHER ->
                /\ pollIdx' = IF pollIdx < Len(gameReaders) THEN pollIdx + 1 ELSE 1
                /\ UNCHANGED <<gameReaders, spc, rpc, wpc, pc>>
    /\ UNCHANGED <<source, poolSize, queueSize, unproccessedQueue, resultsQueue, nread,
                   nkill, srcEnd, dat, f, num_kill_remaining, written, inLog, killsPut,
                   linesPut, ngot>>

\* A cleanup whose polling loop ends while one handle is still pending.
CleanupDoneProcessingEarly ==
    /\ spc = "poll"
    /\ Len(gameReaders) <= 1
    /\ spc' = "waitReader"
    /\ UNCHANGED <<source, poolSize, queueSize, unproccessedQueue, resultsQueue, rpc,
                   nread, nkill, srcEnd, pc, dat, wpc, f, num_kill_remaining, written,
                   gameReaders, pollIdx, inLog, killsPut, linesPut, ngot>>

\* while len(gameReaders) > 0 is false: "Done processing".
CleanupDoneProcessing ==
    /\ spc = "poll"
    /\ Len(gameReaders) = 0
    /\ spc' = "waitReader"
    /\ UNCHANGED <<source, poolSize, queueSize, unproccessedQueue, resultsQueue, rpc,
                   nread, nkill, srcEnd, pc, dat, wpc, f, num_kill_remaining, written,
                   gameReaders, pollIdx, inLog, killsPut, linesPut, ngot>>

\* pgnReaders.get()
CleanupGetReader ==
    /\ spc = "waitReader"
    /\ rpc \in {"done", "raised", "full"}
    /\ IF rpc = "done"
       THEN spc' = "waitWriter" /\ UNCHANGED <<rpc, wpc, pc>>
       ELSE Raise
    /\ UNCHANGED <<source, poolSize, queueSize, unproccessedQueue, resultsQueue, nread,
                   nkill, srcEnd, dat, f, num_kill_remaining, written, gameReaders,
                   pollIdx, inLog, killsPut, linesPut, ngot>>

\* writers.get()
CleanupGetWriter ==
    /\ spc = "waitWriter"
    /\ wpc \in {"closed", "raised"}
    /\ IF wpc = "closed"
       THEN spc' = "done" /\ UNCHANGED <<rpc, wpc, pc>>
       ELSE Raise
    /\ UNCHANGED <<source, poolSize, queueSize, unproccessedQueue, resultsQueue, nread,
                   nkill, srcEnd, dat, f, num_kill_remaining, written, gameReaders,
                   pollIdx, inLog, killsPut, linesPut, ngot>>

----
Next ==
    \/ ReaderPutGame
    \/ ReaderEndOfFile
    \/ ReaderPutKill
    \/ ReaderReturn
    \/ ReaderPutTimeout
    \/ \E w \in Workers : ConverterGet(w)
    \/ \E w \in Workers : ConverterPutLines(w)
    \/ \E w \in Workers : ConverterPutKill(w)
    \/ \E w \in Workers : ConverterPutTimeout(w)
    \/ WriterOpen
    \/ WriterGet
    \/ CleanupPoll
    \/ CleanupDoneProcessing
    \/ CleanupGetReader
    \/ CleanupGetWriter

Spec == Init /\ [][Next]_vars

\* The steps of each process that are not a timeout. Every process is an OS
\* process of its own: one that can take a step keeps running.
ReaderStep == ReaderPutGame \/ ReaderEndOfFile \/ ReaderPutKill \/ ReaderReturn
ConverterStep(w) ==
    w \in Workers /\ (ConverterGet(w) \/ ConverterPutLines(w) \/ ConverterPutKill(w))
WriterStep == WriterOpen \/ WriterGet
CleanupStep ==
    CleanupPoll \/ CleanupDoneProcessing \/ CleanupGetReader \/ CleanupGetWriter

Fairness ==
    /\ WF_vars(ReaderStep)
    /\ \A w \in 1..MaxW : WF_vars(ConverterStep(w))
    /\ WF_vars(WriterStep)
    /\ WF_vars(CleanupStep)

FairInit == Init /\ R + W <= MaxLiveLoad

FairSpec == FairInit /\ [][Next]_vars /\ Fairness

\* Runs on a file of three games, two of which give one line each and one of
\* which gives nothing (NoStockfishEvals, or an empty list), with at least one
\* converter.
ScenarioSources ==
    {s \in [1..3 -> {"skip", "lines0", "lines1"}] :
        Cardinality({id \in 1..3 : s[id] = "lines1"}) = 2}

ScenarioInit ==
    /\ source \in ScenarioSources
    /\ poolSize \in 2..(MaxW + 1)
    /\ queueSize \in 1..MaxC
    /\ Start

ScenarioSpec == ScenarioInit /\ [][Next]_vars

\* Runs on a file of two games of which one is the string 'kill' and the other
\* gives one line, with at least one converter.
KillRecordSources ==
    {s \in [1..2 -> {"kill", "lines1"}] :
        Cardinality({id \in 1..2 : s[id] = "kill"}) = 1}

KillRecordInit ==
    /\ source \in KillRecordSources
    /\ poolSize \in 2..(MaxW + 1)
    /\ queueSize \in 1..MaxC
    /\ Start

KillRecordSpec == KillRecordInit /\ [][Next]_vars

----
\* Quantities the properties are stated in.

RECURSIVE SumUpTo(_, _)
SumUpTo(fn, n) == IF n = 0 THEN 0 ELSE fn[n] + SumUpTo(fn, n - 1)

\* How many items of queue (or file, or history) q satisfy the test.
KillsIn(q) == Cardinality({j \in 1..Len(q) : q[j] = Kill})
KillsLogged(log) == Cardinality({j \in 1..Len(log) : log[j].item = Kill})
GamesLogged(log) == Cardinality({j \in 1..Len(log) : log[j].item # Kill})

\* 'kill's ever put on resultsQueue, and those the writer has taken from it.
KillsEverPut == SumUpTo(killsPut, W)
KillsReceived == KillsEverPut - KillsIn(resultsQueue)

\* Items of any kind the writer has taken from resultsQueue.
ItemsReceived == KillsEverPut + SumUpTo(linesPut, R) - Len(resultsQueue)

Failed(p) == p \in {"raised", "full"}

\* No process has raised, so cleanup has not raised either.
NoFailure ==
    /\ ~Failed(rpc)
    /\ ~Failed(wpc)
    /\ \A w \in Workers : ~Failed(pc[w])

AllConvertersDone == \A w \in Workers : pc[w] = "done"

\* Every process has returned and cleanup has returned.
Terminal ==
    /\ rpc = "done"
    /\ AllConvertersDone
    /\ wpc = "closed"
    /\ spc = "done"

----
\* C1: with W >= 1 and no failure, the reader puts exactly W 'kill's on the
\* unprocessed queue, all of them after all R games (also when the file ends
\* through the absorbed EOFError, and when R = 0); exactly W 'kill's are ever
\* put on the results queue, one by each converter; nothing else puts a game
\* or a 'kill'.
C1_SentinelCounts ==
    W >= 1 =>
        /\ Len(inLog) = nread + nkill
        /\ \A j \in 1..Len(inLog) :
            /\ inLog[j].by = "reader"
            /\ inLog[j].item = (IF j <= R THEN Game(j) ELSE Kill)
        /\ KillsLogged(inLog) <= W
        /\ rpc = "done" => (KillsLogged(inLog) = W /\ GamesLogged(inLog) = R)
        /\ \A w \in Workers :
            /\ killsPut[w] <= 1
            /\ pc[w] = "done" => killsPut[w] = 1
        /\ KillsIn(resultsQueue) <= KillsEverPut
        /\ KillsEverPut <= W
        /\ (NoFailure /\ AllConvertersDone) =>
            (rpc \in {"kills", "done"} /\ nkill = W /\ nread = R /\ KillsEverPut = W)

\* The file ended through EOFError after two games and the whole pipeline shut
\* down: two 'kill's went in, two came out.
C1_Witness ==
    /\ W = 2
    /\ R = 2
    /\ srcEnd = "EOFError"
    /\ rpc = "done"
    /\ AllConvertersDone
    /\ NoFailure
    /\ KillsLogged(inLog) = 2
    /\ KillsEverPut = 2

----
\* C2: the writer leaves its loop and closes the file only by taking a 'kill'
\* from the results queue that brings the 'kill's it has taken to exactly W;
\* never after fewer, never on an empty queue or a timeout.
C2_ClosesOnlyAfterAllKills ==
    /\ [](wpc = "closed" => (W >= 1 /\ KillsReceived = W))
    /\ [][(wpc # "closed" /\ wpc' = "closed") =>
            /\ wpc = "loop"
            /\ Len(resultsQueue) > 0
            /\ Head(resultsQueue) = Kill
            /\ resultsQueue' = Tail(resultsQueue)
            /\ KillsReceived = W - 1
            /\ KillsReceived' = W]_vars

\* The writer has closed the file of a run with two converters.
C2_Witness ==
    /\ wpc = "closed"
    /\ W = 2
    /\ KillsReceived = 2

----
\* C3: when the writer has closed the file of a run with no failure, what
\* follows the header is, as a multiset, exactly the non-empty results of the
\* transform of the R games, each once; the multiset depends on the games only,
\* not on W or on the interleaving, while the order may differ.
C3_SinkIsMultisetOfResults ==
    (wpc = "closed" /\ NoFailure) =>
        /\ Len(f) >= 1
        /\ f[1] = Header
        /\ \A id \in 1..R :
            Cardinality({j \in 2..Len(f) : f[j] = Payload(id, NumLines(source[id]))})
                = (IF NumLines(source[id]) > 0 THEN 1 ELSE 0)
        /\ Len(f) - 1 = Cardinality({id \in 1..R : NumLines(source[id]) > 0})

\* Two converters, two games with results, written in the opposite order.
C3_Witness ==
    /\ wpc = "closed"
    /\ NoFailure
    /\ W = 2
    /\ R = 2
    /\ Len(f) = 3
    /\ f[2].id = 2
    /\ f[3].id = 1

----
\* The reader is at a put: it has a game or a 'kill' left to put.
ReaderAtPut == (rpc = "read" /\ nread < R) \/ (rpc = "kills" /\ nkill < W)

\* C4: neither queue ever holds more than queueSize items; while a queue is
\* full no step adds an item to it, and a process at a put on it stays where it
\* is (or its put times out) until a get has made room.
C4_QueuesBounded ==
    /\ [](Len(unproccessedQueue) <= queueSize /\ Len(resultsQueue) <= queueSize)
    /\ [][/\ Len(unproccessedQueue) = queueSize =>
                /\ Len(unproccessedQueue') <= Len(unproccessedQueue)
                /\ ReaderAtPut =>
                    /\ rpc' \in {rpc, "full", "terminated"}
                    /\ <<nread, nkill, inLog>>' = <<nread, nkill, inLog>>
          /\ Len(resultsQueue) = queueSize =>
                /\ Len(resultsQueue') <= Len(resultsQueue)
                /\ <<killsPut, linesPut>>' = <<killsPut, linesPut>>
                /\ \A w \in Workers : pc[w] \in {"put", "putkill"} =>
                    /\ pc'[w] \in {pc[w], "full", "terminated"}
                    /\ dat'[w] = dat[w]]_vars

\* Both queues are full, the reader is at a put on one and a converter at a put
\* on the other.
C4_Witness ==
    /\ Len(unproccessedQueue) = queueSize
    /\ Len(resultsQueue) = queueSize
    /\ ReaderAtPut
    /\ \E w \in Workers : pc[w] \in {"put", "putkill"}

----
\* The two failures a run can have: a transform that raised, a put that timed out.
TransformFailure == \E w \in Workers : pc[w] = "raised"
SendTimeout == rpc = "full" \/ \E w \in Workers : pc[w] = "full"

\* C5: with W >= 1, under fair scheduling, a run in which no transform raises
\* and no put times out reaches the terminal state: reader, converters and
\* writer have returned, the file is closed and cleanup has returned; with
\* R = 0 the file then holds the header and nothing else.
C5_Terminates ==
    (W >= 1) => <>(\/ TransformFailure
                   \/ SendTimeout
                   \/ (Terminal /\ (R = 0 => f = <<Header>>)))

\* The terminal state of a run with no games and two converters.
C5_Witness ==
    /\ Terminal
    /\ R = 0
    /\ W = 2
    /\ queueSize = 1
    /\ f = <<Header>>

----
\* C6: the writer writes the header once, before it takes any item from the
\* results queue: the file is empty only while the writer has taken nothing,
\* and from then on its first item is the header and no later item is.
C6_HeaderOnceAndFirst ==
    /\ f = <<>> => (wpc \in {"open", "terminated"} /\ ItemsReceived = 0)
    /\ wpc \in {"loop", "closed", "raised"} => f # <<>>
    /\ f # <<>> =>
        /\ f[1] = Header
        /\ \A j \in 2..Len(f) : f[j] # Header
        /\ Len(f) = 1 + written + 1

\* The writer is in its loop and the file holds the header and two payloads.
C6_Witness ==
    /\ wpc = "loop"
    /\ Len(f) = 3
    /\ f[1] = Header
    /\ ItemsReceived >= 2

----
\* Lines and payloads in the file after the header.
RECURSIVE LinesFrom(_, _)
LinesFrom(s, j) == IF j > Len(s) THEN 0 ELSE s[j].n + LinesFrom(s, j + 1)

DataLines == LinesFrom(f, 2)
DataPayloads == IF f = <<>> THEN 0 ELSE Len(f) - 1

RECURSIVE LinesOfGames(_)
LinesOfGames(n) == IF n = 0 THEN 0 ELSE NumLines(source[n]) + LinesOfGames(n - 1)

AllOneLine == \A id \in 1..R : source[id] = "lines1"

\* C7, as stated: the data lines in the file are always at most R, and at
\* close they are R iff no game is skipped and every transform yields exactly
\* one line, whatever number of lines a transform yields.
C7_Original ==
    /\ DataLines <= R
    /\ (wpc = "closed" /\ NoFailure) => (DataLines = R <=> AllOneLine)

\* C7, amended: the bound and the equivalence hold of the payloads (one per
\* game with a non-empty result), and of the data lines only when no transform
\* yields more than one line; the data lines at close are the sum of the line
\* counts of the results.
C7_PayloadsAtMostRecords ==
    /\ DataPayloads <= R
    /\ (\A id \in 1..R : NumLines(source[id]) <= 1) => DataLines <= R
    /\ (wpc = "closed" /\ NoFailure) =>
        /\ DataPayloads = R <=> (\A id \in 1..R : NumLines(source[id]) >= 1)
        /\ DataLines = LinesOfGames(R)
        /\ (\A id \in 1..R : NumLines(source[id]) <= 1) => (DataLines = R <=> AllOneLine)

\* A closed file with more data lines than games.
C7_Witness ==
    /\ wpc = "closed"
    /\ NoFailure
    /\ R >= 1
    /\ DataLines > R
    /\ DataPayloads <= R

----
\* How many times game id is on the unprocessed queue.
OnQueue(id) ==
    Cardinality({j \in 1..Len(unproccessedQueue) : unproccessedQueue[j] = Game(id)})

\* C8: every game the reader has put is on the unprocessed queue or was got by
\* a converter, never both and never twice, so no two converters get the same
\* game; when all converters have returned in a run with no failure, every game
\* was got (and transformed) exactly once.
C8_GotExactlyOnce ==
    /\ \A id \in 1..R :
        /\ ngot[id] <= 1
        /\ ngot[id] + OnQueue(id) = (IF id <= nread THEN 1 ELSE 0)
        /\ Cardinality({w \in Workers : dat[w].id = id}) <= ngot[id]
    /\ (W >= 1 /\ NoFailure /\ AllConvertersDone) =>
        \A id \in 1..R : ngot[id] = 1 /\ OnQueue(id) = 0

\* Two converters have returned after two games, each game got once.
C8_Witness ==
    /\ W = 2
    /\ R = 2
    /\ NoFailure
    /\ AllConvertersDone
    /\ \A id \in 1..R : ngot[id] = 1

----
\* Converters holding the payload of game id for a put, and payloads of game
\* id in a queue or in the file.
Held(id) == Cardinality({w \in Workers : dat[w].id = id})
PayloadsOf(q, id) == Cardinality({j \in 1..Len(q) : q[j].type = "bytes" /\ q[j].id = id})

OneSkipTwoSingles ==
    /\ R = 3
    /\ Cardinality({id \in 1..R : source[id] = "skip"}) = 1
    /\ Cardinality({id \in 1..R : source[id] = "lines1"}) = 2

\* C9: a converter that gets a game whose transform raises NoStockfishEvals or
\* returns no line puts nothing for it and is back at its get; one whose
\* transform returns at least one line puts exactly one payload for it. So the
\* closed file of three games, one skipped and two of one line each, holds the
\* header and exactly 2 data lines.
C9_SkipSendsNothing ==
    /\ [](\A id \in 1..R :
            /\ source[id] \in {"skip", "lines0"} => (linesPut[id] = 0 /\ Held(id) = 0)
            /\ NumLines(source[id]) >= 1 =>
                /\ linesPut[id] + Held(id) = ngot[id]
                /\ linesPut[id] <= 1
            /\ PayloadsOf(resultsQueue, id) + PayloadsOf(f, id) <= linesPut[id])
    /\ []((OneSkipTwoSingles /\ wpc = "closed") =>
            (Len(f) = 3 /\ f[1] = Header /\ DataLines = 2))
    /\ [][\A id \in 1..R :
            /\ (ngot'[id] # ngot[id] /\ source[id] \in {"skip", "lines0"}) =>
                <<pc, dat, resultsQueue, linesPut>>' = <<pc, dat, resultsQueue, linesPut>>
            /\ (ngot'[id] # ngot[id] /\ NumLines(source[id]) >= 1) =>
                \E w \in Workers :
                    /\ pc[w] = "get"
                    /\ pc'[w] = "put"
                    /\ dat'[w] = Payload(id, NumLines(source[id]))
            /\ linesPut'[id] # linesPut[id] =>
                /\ linesPut'[id] = linesPut[id] + 1
                /\ resultsQueue' = Append(resultsQueue, Payload(id, NumLines(source[id])))
                /\ \E w \in Workers : pc[w] = "put" /\ pc'[w] = "get"]_vars

\* The closed file of three games, the second skipped: header and 2 data lines.
C9_Witness ==
    /\ source = <<"lines1", "skip", "lines1">>
    /\ wpc = "closed"
    /\ ngot[2] = 1
    /\ linesPut = <<1, 0, 1>>
    /\ Len(f) = 3
    /\ DataLines = 2

----
----
\* Cleanup state the properties of the shutdown are stated in.
Pending == {gameReaders[j] : j \in 1..Len(gameReaders)}
ConverterFailure == \E w \in Workers : Failed(pc[w])
SomeTerminated ==
    \/ rpc = "terminated"
    \/ wpc = "terminated"
    \/ \E w \in Workers : pc[w] = "terminated"

\* The handle cleanup polls next is that of a converter that raised.
AtFailedHandle ==
    /\ spc = "poll"
    /\ Len(gameReaders) > 0
    /\ Failed(pc[gameReaders[pollIdx]])

----
\* The reader, or converter w, moves while it is at a put on a full queue.
ReaderMovesAtFullPut ==
    /\ ReaderAtPut
    /\ Len(unproccessedQueue) >= queueSize
    /\ rpc' \notin {rpc, "terminated"}
ConverterMovesAtFullPut(w) ==
    /\ pc[w] \in {"put", "putkill"}
    /\ Len(resultsQueue) >= queueSize
    /\ pc'[w] \notin {pc[w], "terminated"}

\* C12: a put of the reader (of a game or of a 'kill') that times out on the
\* full input queue is fatal: the item is not put, the put is not repeated and
\* the reader ends with queue.Full, after which it puts no game and no 'kill';
\* the same holds for a converter's put that times out on the full output
\* queue.
C12_PutTimeoutIsFatal ==
    /\ [][ReaderMovesAtFullPut =>
            /\ rpc' = "full"
            /\ <<unproccessedQueue, nread, nkill, inLog>>' = <<unproccessedQueue, nread, nkill, inLog>>]_vars
    /\ [][rpc = "full" =>
            /\ rpc' = "full"
            /\ <<nread, nkill, inLog>>' = <<nread, nkill, inLog>>
            /\ Len(unproccessedQueue') <= Len(unproccessedQueue)]_vars
    /\ [][\A w \in Workers : ConverterMovesAtFullPut(w) =>
            /\ pc'[w] = "full"
            /\ <<resultsQueue, killsPut, linesPut, dat>>' = <<resultsQueue, killsPut, linesPut, dat>>]_vars
    /\ [][\A w \in Workers : pc[w] = "full" => (pc'[w] = "full" /\ dat'[w] = dat[w])]_vars

\* The reader timed out before its last 'kill' and a converter timed out on a
\* put of its own.
C12_Witness ==
    /\ rpc = "full"
    /\ nkill < W
    /\ \E w \in Workers : pc[w] = "full"

----
\* The pending list without its element at pollIdx.
WithoutPolled ==
    [j \in 1..(Len(gameReaders) - 1) |->
        IF j < pollIdx THEN gameReaders[j] ELSE gameReaders[j + 1]]

\* C13: cleanup waits for the converters, then for the reader, then for the
\* writer. While it polls, its index stays inside the pending list; the list
\* changes only by losing the one handle just polled, and only when that
\* converter has returned, after which the pass starts again at the front; the
\* wait for the reader starts only from the polling loop with the list empty,
\* the wait for the writer only from the wait for the reader once the reader
\* has returned, and cleanup is done only once the writer has returned.
C13_CleanupOrder ==
    /\ []((spc = "poll" /\ Len(gameReaders) > 0) => pollIdx \in 1..Len(gameReaders))
    /\ [](spc \in {"waitReader", "waitWriter", "done"} => gameReaders = <<>>)
    /\ [](spc \in {"waitWriter", "done"} => rpc = "done")
    /\ [](spc = "done" => wpc = "closed")
    /\ [][gameReaders' # gameReaders =>
            /\ spc = "poll" /\ spc' = "poll"
            /\ pc[gameReaders[pollIdx]] = "done"
            /\ gameReaders' = WithoutPolled
            /\ pollIdx' = 1]_vars
    /\ [][spc' # spc =>
            \/ spc' = "raised"
            \/ spc = "poll" /\ spc' = "waitReader"
            \/ spc = "waitReader" /\ spc' = "waitWriter"
            \/ spc = "waitWriter" /\ spc' = "done"]_vars

\* The second converter returned first, so a pass went over the first one's
\* unfinished handle and removed the second.
C13_Witness ==
    /\ W = 2
    /\ spc = "poll"
    /\ gameReaders = <<1>>
    /\ pc[1] \in {"get", "put", "putkill"}
    /\ pc[2] = "done"

----
\* Converters that got a 'kill' and are at the put of it or have returned.
GotKill == {w \in Workers : pc[w] \in {"putkill", "done"}}

\* C14, as stated: a converter leaves its loop only by getting a 'kill', and
\* then puts exactly one 'kill': every converter that is out of its loop
\* (and was not terminated from outside) has put exactly one 'kill'.
C14_Original ==
    \A w \in Workers : pc[w] \in {"done", "raised", "full"} => killsPut[w] = 1

\* C14, amended: a converter gets a 'kill' only at the head of the unprocessed
\* queue, then gets nothing more: it puts one 'kill' on the results queue and
\* returns, unless that put times out (or the pools are terminated), in which
\* case it puts none. So a converter puts at most one 'kill', has returned
\* exactly when it has put one, and the 'kill's taken from the unprocessed
\* queue went to different converters. Getting a 'kill' is the only way a
\* converter returns, but not the only way its loop ends: a transform that
\* raises and a put that times out end it too, with no 'kill' put.
C14_KillEndsConverter ==
    /\ [](\A w \in Workers :
            /\ killsPut[w] \in {0, 1}
            /\ pc[w] = "done" <=> killsPut[w] = 1)
    /\ [](Cardinality(GotKill) <= nkill - KillsIn(unproccessedQueue))
    /\ []((NoFailure /\ spc # "raised") =>
            Cardinality(GotKill) = nkill - KillsIn(unproccessedQueue))
    /\ [][\A w \in Workers :
            /\ (pc[w] # "putkill" /\ pc'[w] = "putkill") =>
                    /\ pc[w] = "get"
                    /\ Len(unproccessedQueue) > 0
                    /\ IsKill(Head(unproccessedQueue))
                    /\ unproccessedQueue' = Tail(unproccessedQueue)
            /\ (pc[w] = "putkill" /\ pc'[w] # "putkill") =>
                    /\ unproccessedQueue' = unproccessedQueue
                    /\ \/ /\ pc'[w] = "done"
                          /\ resultsQueue' = Append(resultsQueue, Kill)
                       \/ /\ pc'[w] \in {"full", "terminated"}
                          /\ resultsQueue' = resultsQueue
            /\ pc[w] = "done" => pc'[w] = "done"
            /\ (pc[w] # "raised" /\ pc'[w] = "raised") => (pc[w] = "get" /\ killsPut[w] = 0)
            /\ (pc[w] # "full" /\ pc'[w] = "full") => pc[w] \in {"put", "putkill"}]_vars

\* One converter returned after its 'kill'; the loop of the other ended with
\* the exception of a transform, with no 'kill' got or put.
C14_Witness ==
    /\ W = 2
    /\ \E w \in Workers : pc[w] = "done" /\ killsPut[w] = 1
    /\ \E w \in Workers : pc[w] = "raised" /\ killsPut[w] = 0

----
\* The converters processPGN started.
Spawned == DOMAIN pc

\* C15: processPGN starts poolSize - 1 converters; the number of 'kill's the
\* reader is told to put and the writer's initial count of 'kill's to wait for
\* (its count now plus the 'kill's it has taken) are both the number of
\* converters started; that number never exceeds the processes of the workers
\* pool, so no converter is ever queued behind another one.
C15_WorkerCounts ==
    /\ Cardinality(Spawned) = poolSize - 1
    /\ ReaderNumReaders = Cardinality(Spawned)
    /\ num_kill_remaining + KillsReceived = Cardinality(Spawned)
    /\ Len(gameReaders) <= Cardinality(Spawned)
    /\ Cardinality(Spawned) <= WorkersPoolProcesses
    /\ \A w \in Spawned : pc[w] # "queued"

\* With a pool of three, both converters started hold a result of their own
\* at the same time, before the reader has put any 'kill'.
C15_Witness ==
    /\ poolSize = 3
    /\ Cardinality(Spawned) = 2
    /\ \A w \in Spawned : pc[w] = "put"
    /\ nkill = 0

----
\* C16: no receiver takes an item for what it is not. A converter goes to
\* the put of its 'kill' exactly when the item it got is one the reader put
\* as a 'kill', also when a game's string has the value 'kill'; the writer
\* counts an item down exactly when it is a 'kill' a converter put, and
\* appends to the file exactly the items put as results.
C16_NeverMisclassified ==
    /\ [][\A w \in Workers :
            (pc[w] = "get" /\ pc'[w] \notin {"get", "terminated"}) =>
                (pc'[w] = "putkill" <=> Head(unproccessedQueue) = Kill)]_vars
    /\ [][(wpc = "loop" /\ Len(resultsQueue') < Len(resultsQueue)) =>
            /\ num_kill_remaining' # num_kill_remaining <=> Head(resultsQueue) = Kill
            /\ f' # f <=> Head(resultsQueue).type = "bytes"]_vars

----
\* Data payloads on the results queue.
PayloadsOn(q) == Cardinality({j \in 1..Len(q) : q[j].type = "bytes"})

\* The writer has taken its last 'kill' (there is at least one converter).
LastKillTaken == W >= 1 /\ num_kill_remaining <= 0

\* C17: a converter that has put its 'kill' has returned, so it puts its
\* 'kill' after all its results, and the results queue is first in, first
\* out: it grows at its end and shrinks at its head. Hence once the writer has
\* taken its W-th 'kill' every converter has returned, the results queue holds
\* no result (it is empty) and no step puts one on it or writes one.
C17_NothingBehindLastKill ==
    /\ [](\A w \in Workers : killsPut[w] >= 1 => pc[w] = "done")
    /\ [](LastKillTaken =>
            /\ AllConvertersDone
            /\ PayloadsOn(resultsQueue) = 0
            /\ resultsQueue = <<>>
            /\ wpc = "closed")
    /\ [][/\ Len(resultsQueue') > Len(resultsQueue) =>
                /\ Len(resultsQueue') = Len(resultsQueue) + 1
                /\ SubSeq(resultsQueue', 1, Len(resultsQueue)) = resultsQueue
          /\ Len(resultsQueue') < Len(resultsQueue) =>
                resultsQueue' = Tail(resultsQueue)
          /\ Len(resultsQueue') = Len(resultsQueue) =>
                resultsQueue' = resultsQueue]_vars
    /\ [][LastKillTaken => <<resultsQueue, linesPut, killsPut, f>>' = <<resultsQueue, linesPut, killsPut, f>>]_vars

\* With two converters the writer has taken the second 'kill' and closed the
\* file, with two results written and nothing left on the results queue.
C17_Witness ==
    /\ W = 2
    /\ LastKillTaken
    /\ wpc = "closed"
    /\ Len(f) = 3

----
\* No converter has taken anything from the unprocessed queue yet.
NothingTaken == Len(unproccessedQueue) = nread + nkill

\* C18: with at least one converter, in every state where all converters have
\* returned, the reader has completed its R + W puts (it has returned or is
\* about to), the unprocessed queue is empty and all W 'kill's have been put
\* on the results queue; from there no converter moves, and under fair
\* scheduling the reader, the writer and cleanup finish. Before that, when
\* R + W > queueSize the reader cannot return while the converters have taken
\* nothing from the unprocessed queue.
C18_ReaderDoneBeforeConverters ==
    /\ []((W >= 1 /\ AllConvertersDone) =>
            /\ nread = R
            /\ nkill = W
            /\ rpc \in {"kills", "done"}
            /\ unproccessedQueue = <<>>
            /\ KillsEverPut = W)
    /\ [][(W >= 1 /\ AllConvertersDone) => <<pc, dat, unproccessedQueue>>' = <<pc, dat, unproccessedQueue>>]_vars
    /\ (W >= 1 /\ AllConvertersDone) ~> Terminal
    /\ []((R + W > queueSize /\ NothingTaken) => rpc # "done")

\* Both converters have returned; the reader has put everything but has not
\* returned yet, and the writer has not yet taken the 'kill's.
C18_Witness ==
    /\ W = 2
    /\ R >= 1
    /\ AllConvertersDone
    /\ rpc = "kills"
    /\ KillsIn(resultsQueue) >= 1
    /\ wpc = "loop"
    /\ spc = "poll"

----
\* The reader ended with an exception before its last 'kill'.
ReaderFailedEarly == Failed(rpc) /\ nkill < W

Returned == {w \in Workers : pc[w] = "done"}
OutOfLoop == {w \in Workers : pc[w] \notin {"get", "put", "putkill"}}

\* Every converter has returned or waits at its get on the empty unprocessed
\* queue, and cleanup is polling.
ConvertersBlocked ==
    /\ spc = "poll"
    /\ unproccessedQueue = <<>>
    /\ \A w \in Workers : pc[w] \in {"get", "done"}
    /\ \E w \in Workers : pc[w] = "get"

\* C19, as stated: once the reader has failed with k < W 'kill's put, at most
\* k converters are ever out of their loop, and cleanup never leaves its
\* polling loop.
C19_Original ==
    ReaderFailedEarly => (Cardinality(OutOfLoop) <= nkill /\ spc = "poll")

\* C19, amended: once the reader has failed with k < W 'kill's put, at most k
\* converters ever return, and cleanup never reaches the wait for the reader:
\* it is in its polling loop, or has left it with the exception of a converter
\* that failed itself (a transform that raised, a put that timed out), which
\* also ends the converters that were still running. Under fair scheduling one
\* of the two happens: cleanup re-raises a converter's failure, or every
\* converter that has not returned waits at its get on the empty unprocessed
\* queue, and then that state lasts forever, with cleanup polling.
C19_ReaderFailureUnobserved ==
    /\ [](ReaderFailedEarly =>
            /\ Cardinality(Returned) <= nkill
            /\ spc \in {"poll", "raised"}
            /\ spc = "raised" => ConverterFailure)
    /\ [][ReaderFailedEarly => ReaderFailedEarly']_vars
    /\ [][(ReaderFailedEarly /\ ConvertersBlocked) =>
            /\ ConvertersBlocked'
            /\ <<pc, dat, unproccessedQueue>>' = <<pc, dat, unproccessedQueue>>]_vars
    /\ ReaderFailedEarly ~> (ConvertersBlocked \/ spc = "raised")

\* The reader timed out at its second 'kill'; one converter took the first
\* and returned, the other waits at its get on the empty queue while cleanup
\* polls.
C19_Witness ==
    /\ W = 2
    /\ rpc = "full"
    /\ nkill = 1
    /\ Cardinality(Returned) = 1
    /\ ConvertersBlocked
    /\ gameReaders # [j \in 1..W |-> j]

----
\* The writer waits at its get with the header and nothing else written.
WriterWaitsAfterHeader == wpc = "loop" /\ f = <<Header>> /\ resultsQueue = <<>>

\* C20, as stated: with no converter (poolSize 1) the writer is never closed
\* and never ended from outside: once it has written the header it waits at
\* its get forever, whatever R is.
C20_Original ==
    W = 0 => wpc \in {"open", "loop"}

\* C20, amended: with no converter no 'kill' is ever put, the writer's count
\* is 0 from the start and is never tested, the writer never closes the file
\* and cleanup never returns, for every R. If R <= queueSize the reader puts
\* its games and returns, the writer waits at its get forever with only the
\* header written, and cleanup waits for the writer forever. If R > queueSize
\* the reader never returns and cleanup never reaches the wait for the writer:
\* the reader stays at a put on the full queue until the put times out, and
\* then cleanup's wait for the reader re-raises queue.Full and the writer is
\* terminated.
C20_NoConverterNeverCloses ==
    /\ [](W = 0 =>
            /\ nkill = 0
            /\ num_kill_remaining = 0
            /\ resultsQueue = <<>>
            /\ wpc # "closed"
            /\ spc # "done"
            /\ f \in {<<>>, <<Header>>})
    /\ (W = 0 /\ R <= queueSize) =>
            <>[](WriterWaitsAfterHeader /\ rpc = "done" /\ spc = "waitWriter")
    /\ []((W = 0 /\ R > queueSize) =>
            /\ rpc \in {"read", "full"}
            /\ spc \in {"poll", "waitReader", "raised"})
    /\ (W = 0 /\ rpc = "full") ~> [](spc = "raised" /\ wpc = "terminated")

\* No converter and no game: the reader has returned, the writer waits at its
\* get after the header, and cleanup waits for the writer.
C20_Witness ==
    /\ W = 0
    /\ R = 0
    /\ rpc = "done"
    /\ WriterWaitsAfterHeader
    /\ spc = "waitWriter"

====
